---- MODULE Spec2Model ----
(***************************************************************************)
(* Model of YellowstoneUpcomingLeader::try_predict_next_n_leaders          *)
(* (crates/tpu-client/src/yellowstone_grpc/schedule.rs).                   *)
(*                                                                         *)
(* A predictor call loads the slot tracker once, derives start_boundary,   *)
(* and then pulls n candidate boundaries through a lazy map/filter_map     *)
(* chain that asks the managed leader schedule once per boundary.  The     *)
(* tracker and the schedule are shared handles that background tasks keep  *)
(* updating, so every oracle query is a separate step of the model and     *)
(* the updaters may run between any two of them.                           *)
(*                                                                         *)
(* Slots are u64 in the source.  Subtraction is saturating and is modelled *)
(* as such; the addition start_boundary + i*4 cannot reach 2^64 for any    *)
(* slot below 2^64 - 4*n, which covers every slot of the bounded model.    *)
(***************************************************************************)
EXTENDS Integers, Sequences, FiniteSets

\* ------------------------------------------------------------------ bounds
MaxN == 3
MaxSlot == 8
\* last window boundary the schedule cache covers; get_leader answers
\* Ok(None) beyond it
MaxHorizon == 4

\* --------------------------------------------------------------- constants
\* slots per leader window: the literal 4 of `slot % 4`, `saturating_sub(4)`
\* and `i * 4`
W == 4

Callers == {"c1", "c2"}
Leaders == {"A", "B"}
\* Ok(Some(leader)) is the leader itself, Ok(None) is "None", Err(e) is "Err"
Entries == Leaders \cup {"None", "Err"}

saturating_sub(a, b) == IF a >= b THEN a - b ELSE 0

Slots == 0..MaxSlot
Boundaries == {b \in 0..MaxHorizon : b % W = 0}

VARIABLES
    tracker,         \* AtomicSlotTracker: [poisoned, slot]
    schedule,        \* ManagedLeaderSchedule: boundary -> entry
    pc,              \* per caller: "idle", "querying", "done", "panicked"
    n,               \* per caller: argument of the call
    slot,            \* per caller: local `slot` (line 62)
    start_boundary,  \* per caller: local `start_boundary` (line 70)
    i,               \* per caller: position of the (0..n) iterator
    leaders,         \* per caller: the collected Vec<Pubkey>
    log,             \* per caller: get_leader calls made: boundary, answer,
                     \*   and whether the tracker had moved on by then
    reads,           \* per caller: slot_tracker.load() calls made
    atPoison,        \* per caller: the tracker was poisoned when the call began
    fresh,           \* per caller: no updater ran since the call began
    lastStart        \* start_boundary of the latest successful load, -1 if none

callVars == <<pc, n, slot, start_boundary, i, leaders, log, reads, atPoison>>
vars == <<tracker, schedule, pc, n, slot, start_boundary, i, leaders, log,
          reads, atPoison, fresh, lastStart>>

\* ------------------------------------------------------- the collaborators
\* AtomicSlotTracker::load(): Ok(slot) or Err(poisoned)
load(t) == IF t.poisoned THEN [ok |-> FALSE, slot |-> 0]
                         ELSE [ok |-> TRUE, slot |-> t.slot]

\* ManagedLeaderSchedule::get_leader(boundary)
get_leader(b) == IF b \in DOMAIN schedule THEN schedule[b] ELSE "None"

\* ---------------------------------------------------- the boundary algebra
\* the remainder is not taken off
current_leader_boundary_unaligned(s) == s

\* line 63, 66
current_leader_boundary(s) == saturating_sub(s, s % W)

\* the window of the slot itself instead of the one before it
StartBoundaryOf_current(s) == current_leader_boundary(s)

\* four slots back from the slot instead of from its window boundary
StartBoundaryOf_slot(s) == saturating_sub(s, W)

\* line 70
StartBoundaryOf(s) == saturating_sub(current_leader_boundary(s), W)

\* the index is not scaled by the window size
leader_slot_boundary_unscaled(start, k) == start + k

\* line 85: the closure of .map()
leader_slot_boundary(start, k) == start + k * W

\* a leader equal to the one collected last is skipped
filter_map_dedup(acc, answer) ==
    IF answer \in Leaders /\ (acc = <<>> \/ acc[Len(acc)] # answer)
    THEN Append(acc, answer) ELSE acc

\* lines 86-112: the closure of .filter_map(), folded into the collected Vec
filter_map(acc, answer) ==
    IF answer \in Leaders THEN Append(acc, answer) ELSE acc

\* ------------------------------------------------------------------- init
SampleSchedules ==
    { [b \in Boundaries |-> IF (b \div W) % 2 = 0 THEN "A" ELSE "B"],
      [b \in Boundaries |-> IF b = 0 THEN "Err" ELSE "A"] }

InitCallers ==
    /\ pc = [c \in Callers |-> "idle"]
    /\ n = [c \in Callers |-> 0]
    /\ slot = [c \in Callers |-> 0]
    /\ start_boundary = [c \in Callers |-> 0]
    /\ i = [c \in Callers |-> 0]
    /\ leaders = [c \in Callers |-> <<>>]
    /\ log = [c \in Callers |-> <<>>]
    /\ reads = [c \in Callers |-> 0]
    /\ atPoison = [c \in Callers |-> FALSE]
    /\ fresh = [c \in Callers |-> TRUE]
    /\ lastStart = -1

Init ==
    /\ tracker \in [poisoned : {FALSE}, slot : Slots]
    /\ schedule \in [Boundaries -> Entries]
    /\ InitCallers

InitConc ==
    /\ tracker \in [poisoned : {FALSE}, slot : Slots]
    /\ schedule \in SampleSchedules
    /\ InitCallers

\* ------------------------------------------------------ the predictor call
\* lines 57-80, the entry of the call up to the construction of the iterator:
\*   early  the outcome of `n == 0` (line 58)
\*   r      the outcome of slot_tracker.load() handed to .expect (line 62)
\*   acc    the Vec the call starts to fill
\*   t      the tracker the call leaves behind
enter(c, nn, early, r, acc, t) ==
    /\ pc[c] \in {"idle", "done"}
    /\ n' = [n EXCEPT ![c] = nn]
    /\ atPoison' = [atPoison EXCEPT ![c] = tracker.poisoned]
    /\ fresh' = [fresh EXCEPT ![c] = TRUE]
    /\ i' = [i EXCEPT ![c] = 0]
    /\ leaders' = [leaders EXCEPT ![c] = acc]
    /\ log' = [log EXCEPT ![c] = <<>>]
    /\ IF early
       THEN \* return Vec::new()
            /\ pc' = [pc EXCEPT ![c] = "done"]
            /\ reads' = [reads EXCEPT ![c] = 0]
            /\ slot' = [slot EXCEPT ![c] = 0]
            /\ start_boundary' = [start_boundary EXCEPT ![c] = 0]
            /\ UNCHANGED lastStart
       ELSE /\ reads' = [reads EXCEPT ![c] = 1]
            /\ IF r.ok
               THEN \* (0..n) is empty for n = 0: collect() has nothing to pull
                    /\ pc' = [pc EXCEPT ![c] =
                                IF nn = 0 THEN "done" ELSE "querying"]
                    /\ slot' = [slot EXCEPT ![c] = r.slot]
                    /\ start_boundary' =
                         [start_boundary EXCEPT ![c] = StartBoundaryOf(r.slot)]
                    /\ lastStart' = StartBoundaryOf(r.slot)
               ELSE \* .expect("load") panics
                    /\ pc' = [pc EXCEPT ![c] = "panicked"]
                    /\ slot' = [slot EXCEPT ![c] = 0]
                    /\ start_boundary' = [start_boundary EXCEPT ![c] = 0]
                    /\ UNCHANGED lastStart
    /\ tracker' = t
    /\ UNCHANGED schedule

\* .unwrap_or_default() in place of .expect("load")
try_predict_unwrap_or_default(c, nn) ==
    enter(c, nn, nn = 0, [ok |-> TRUE, slot |-> load(tracker).slot], <<>>,
          tracker)

\* the tracker is loaded before n is looked at
try_predict_load_first(c, nn) ==
    enter(c, nn, FALSE, load(tracker), <<>>, tracker)

\* the Vec of the previous call is filled again
try_predict_reused_vec(c, nn) ==
    enter(c, nn, nn = 0, load(tracker), leaders[c], tracker)

\* the load is a fetch_add(1)
try_predict_fetch_add(c, nn) ==
    enter(c, nn, nn = 0, load(tracker), <<>>,
          IF nn > 0 /\ ~tracker.poisoned /\ tracker.slot < MaxSlot
          THEN [tracker EXCEPT !.slot = @ + 1] ELSE tracker)

try_predict_next_n_leaders(c, nn) ==
    enter(c, nn, nn = 0, load(tracker), <<>>, tracker)

\* lines 84-121, one pull of collect() through map and filter_map, where
\* `start` is the start boundary the map closure adds to; the pull that
\* exhausts (0..n) completes the Vec and returns it
pull(c, start) ==
    /\ pc[c] = "querying"
    /\ LET leader_boundary == leader_slot_boundary(start, i[c])
           answer == get_leader(leader_boundary)
       IN /\ log' = [log EXCEPT ![c] =
                       Append(@, [boundary |-> leader_boundary,
                                  answer |-> answer,
                                  tracker_moved |-> load(tracker).slot # slot[c]
                                                    \/ tracker.poisoned])]
          /\ leaders' = [leaders EXCEPT ![c] = filter_map(@, answer)]
    /\ i' = [i EXCEPT ![c] = @ + 1]
    /\ pc' = [pc EXCEPT ![c] = IF i[c] + 1 = n[c] THEN "done" ELSE "querying"]
    /\ UNCHANGED <<tracker, schedule, n, slot, start_boundary, reads,
                   atPoison, fresh, lastStart>>

\* the map closure loads the tracker again for every boundary
next_leader_reload(c) ==
    pull(c, IF tracker.poisoned THEN start_boundary[c]
            ELSE StartBoundaryOf(tracker.slot))

next_leader(c) == pull(c, start_boundary[c])

\* ------------------------------------------------- the background updaters
Stale == [c \in Callers |-> FALSE]

\* the slot updater stores a newer slot; slots never decrease
Advance(s) ==
    /\ ~tracker.poisoned
    /\ s > tracker.slot
    /\ tracker' = [tracker EXCEPT !.slot = s]
    /\ fresh' = Stale
    /\ UNCHANGED <<schedule, callVars, lastStart>>

\* the slot updater dies: the tracker is poisoned for good
Poison ==
    /\ ~tracker.poisoned
    /\ tracker' = [poisoned |-> TRUE, slot |-> 0]
    /\ fresh' = Stale
    /\ UNCHANGED <<schedule, callVars, lastStart>>

\* the schedule cache is refreshed: one boundary gets another entry
Refresh(b, e) ==
    /\ schedule[b] # e
    /\ schedule' = [schedule EXCEPT ![b] = e]
    /\ fresh' = Stale
    /\ UNCHANGED <<tracker, callVars, lastStart>>

\* --------------------------------------------------------- specifications
\* one caller, all updaters
Next ==
    \/ \E nn \in 0..MaxN : try_predict_next_n_leaders("c1", nn)
    \/ next_leader("c1")
    \/ \E s \in Slots : Advance(s)
    \/ Poison
    \/ \E b \in Boundaries, e \in Entries : Refresh(b, e)

Spec == Init /\ [][Next]_vars

\* concurrent callers, the slot updater running, the schedule cache at rest
NextConc ==
    \/ \E c \in Callers, nn \in 0..MaxN : try_predict_next_n_leaders(c, nn)
    \/ \E c \in Callers : next_leader(c)
    \/ \E s \in Slots : Advance(s)
    \/ Poison

SpecConc == InitConc /\ [][NextConc]_vars

TypeOK ==
    /\ tracker \in [poisoned : BOOLEAN, slot : Slots]
    /\ schedule \in [Boundaries -> Entries]
    /\ pc \in [Callers -> {"idle", "querying", "done", "panicked"}]
    /\ n \in [Callers -> 0..MaxN]
    /\ \A c \in Callers : i[c] <= n[c] /\ Len(leaders[c]) <= i[c]

\* ------------------------------------------------------------ the claims
Max(a, b) == IF a >= b THEN a ELSE b

\* the window boundary of slot s, and the start boundary the specification
\* states for it
WindowOf(s) == s - (s % 4)
ExpectedStart(s) == Max(0, WindowOf(s) - 4)

InCall(c) == pc[c] \in {"querying", "done"} /\ n[c] > 0
Returned(c) == pc[c] = "done"
BoundariesOf(c) == [j \in 1..Len(log[c]) |-> log[c][j].boundary]
AnswersOf(c) == [j \in 1..Len(log[c]) |-> log[c][j].answer]

RECURSIVE KnownIn(_)
KnownIn(answers) ==
    IF answers = <<>> THEN <<>>
    ELSE (IF Head(answers) \in Leaders THEN <<Head(answers)>> ELSE <<>>)
         \o KnownIn(Tail(answers))

DroppedIn(answers) ==
    Cardinality({j \in 1..Len(answers) : answers[j] \in {"None", "Err"}})

\* C1: a call with n > 0 made while the tracker is poisoned never returns a
\* leader sequence: it panics, having queried nothing and collected nothing,
\* whatever the schedule holds.
C1_PoisonedCallFails ==
    \A c \in Callers :
        (atPoison[c] /\ n[c] > 0 /\ pc[c] # "idle") =>
            /\ pc[c] = "panicked"
            /\ ~Returned(c)
            /\ log[c] = <<>>
            /\ leaders[c] = <<>>

C1_Witness ==
    \E c \in Callers :
        /\ pc[c] = "panicked" /\ atPoison[c] /\ n[c] > 0
        /\ \E b \in Boundaries : schedule[b] \in Leaders

\* C2: a call with n = 0 returns the empty sequence without loading the
\* tracker and without querying the schedule, also when the tracker is
\* poisoned.
C2_ZeroReturnsEmpty ==
    \A c \in Callers :
        (n[c] = 0 /\ pc[c] # "idle") =>
            /\ Returned(c)
            /\ leaders[c] = <<>>
            /\ reads[c] = 0
            /\ log[c] = <<>>

C2_Witness ==
    \E c \in Callers : Returned(c) /\ n[c] = 0 /\ atPoison[c]

\* C3: the boundaries a call queries are start + 4*k for k = 0..n-1 with
\* start = max(0, (s - s mod 4) - 4) for the slot s it read: n of them once
\* the call returns, each a multiple of 4, each 4 above the one before.
C3_CandidateBoundaries ==
    \A c \in Callers :
        InCall(c) =>
            /\ Len(log[c]) = i[c]
            /\ Returned(c) => Len(log[c]) = n[c]
            /\ \A j \in 1..Len(log[c]) :
                  /\ BoundariesOf(c)[j] = ExpectedStart(slot[c]) + 4 * (j - 1)
                  /\ BoundariesOf(c)[j] % 4 = 0
            /\ \A j \in 1..(Len(log[c]) - 1) :
                  BoundariesOf(c)[j + 1] = BoundariesOf(c)[j] + 4

\* slot 3 with n = 2 queries [0, 4]
C3_Witness ==
    \E c \in Callers :
        Returned(c) /\ n[c] = 2 /\ slot[c] = 3 /\ BoundariesOf(c) = <<0, 4>>

\* C4: a returned sequence is the known answers of the n queries, in the
\* order of the queries, which is increasing boundary order; unknown and
\* failed lookups are left out without a placeholder, equal neighbours stay,
\* and the length is n minus the number left out.  A call during which no
\* updater ran got the answers the schedule still holds.
C4_ReturnsKnownInOrder ==
    \A c \in Callers :
        (Returned(c) /\ n[c] > 0) =>
            /\ Len(log[c]) = n[c]
            /\ \A j \in 1..(n[c] - 1) :
                  BoundariesOf(c)[j] < BoundariesOf(c)[j + 1]
            /\ leaders[c] = KnownIn(AnswersOf(c))
            /\ Len(leaders[c]) = n[c] - DroppedIn(AnswersOf(c))
            /\ Len(leaders[c]) <= n[c]
            /\ fresh[c] =>
                  \A j \in 1..n[c] :
                      AnswersOf(c)[j] =
                          IF BoundariesOf(c)[j] \in Boundaries
                          THEN schedule[BoundariesOf(c)[j]] ELSE "None"

\* a failed lookup, then a known leader, then a boundary beyond the horizon
C4_Witness ==
    \E c \in Callers :
        /\ Returned(c) /\ n[c] = 3
        /\ AnswersOf(c) = <<"Err", "A", "None">>
        /\ leaders[c] = <<"A">>

\* C5 as stated: the first boundary queried is always the boundary of the
\* window before the window of the slot read.
C5_FirstIsPreviousWindow ==
    \A c \in Callers :
        (InCall(c) /\ Len(log[c]) >= 1) =>
            BoundariesOf(c)[1] = WindowOf(slot[c]) - 4

\* C5 amended: for a slot of 4 or more the first boundary queried is the
\* boundary of the window before the window of the slot; for a slot below 4
\* there is no such window and the first boundary queried is 0, the boundary
\* of the slot's own window.
C5_FirstIsPreviousWindowFrom4 ==
    \A c \in Callers :
        (InCall(c) /\ Len(log[c]) >= 1) =>
            /\ slot[c] >= 4 => BoundariesOf(c)[1] = WindowOf(slot[c]) - 4
            /\ slot[c] < 4 =>
                  BoundariesOf(c)[1] = 0 /\ WindowOf(slot[c]) = 0

C5_Witness ==
    \E c \in Callers :
        InCall(c) /\ Len(log[c]) >= 1 /\ slot[c] = 8 /\ BoundariesOf(c)[1] = 4

C7_OneSnapshotPerCall ==
    [][\A c \in Callers :
          /\ (pc[c] # "querying" /\ pc'[c] = "querying") =>
                slot'[c] = tracker.slot
          /\ (pc[c] = "querying") =>
                /\ slot'[c] = slot[c]
                /\ n'[c] = n[c]
                /\ i'[c] = i[c] + 1 =>
                      /\ Len(log'[c]) = i[c] + 1
                      /\ log'[c][i[c] + 1].boundary =
                            ExpectedStart(slot[c]) + 4 * i[c]]_vars

\* a call whose first query ran before and whose last query ran after the
\* tracker moved, next to a second call that read a slot of a later window
C7_Witness ==
    \E c, d \in Callers :
        /\ c # d
        /\ Returned(c) /\ n[c] >= 2
        /\ ~log[c][1].tracker_moved /\ log[c][n[c]].tracker_moved
        /\ pc[d] = "querying" /\ Len(log[d]) >= 1
        /\ ExpectedStart(slot[d]) > ExpectedStart(slot[c])

\* C8: two returned calls with the same n, with no updater run since either
\* began, hold the same sequence.
C8_SameStateSameSequence ==
    \A c, d \in Callers :
        (Returned(c) /\ Returned(d) /\ n[c] = n[d] /\ fresh[c] /\ fresh[d]) =>
            leaders[c] = leaders[d]

C8_Witness ==
    \E c, d \in Callers :
        /\ c # d
        /\ Returned(c) /\ Returned(d) /\ n[c] = n[d] /\ fresh[c] /\ fresh[d]
        /\ Len(leaders[c]) >= 2

\* C9: a step of a call, whether it returns, returns empty or panics, leaves
\* the tracker and the schedule as they were.
C9_CallsOnlyRead ==
    [][callVars' # callVars => (tracker' = tracker /\ schedule' = schedule)]_vars

C9_Witness ==
    \E c \in Callers :
        Returned(c) /\ n[c] > 0 /\ Len(leaders[c]) >= 1 /\ ~tracker.poisoned

\* C10: from one successful load to the next the start boundary stays or
\* grows by a multiple of 4.
C10_StartNeverMovesBack ==
    [][lastStart # -1 =>
          /\ lastStart' >= lastStart
          /\ (lastStart' - lastStart) % 4 = 0]_vars

\* two calls in flight, the later one a window ahead
C10_Witness ==
    \E c, d \in Callers :
        /\ InCall(c) /\ InCall(d)
        /\ ExpectedStart(slot[c]) = 0 /\ ExpectedStart(slot[d]) = 4
        /\ lastStart = 4
====
